---- MODULE Spec2Model ----
(***************************************************************************)
(* evaki: bulk rename of paths through an editor round trip.               *)
(* A model of src/main.rs: one run of main_impl as a sequence of steps      *)
(* (collect, edit, parse, validate, rename loop), the filesystem and the    *)
(* editor being the environment.                                            *)
(*                                                                          *)
(* A path (a Rust String) is a sequence of one-character strings; a text    *)
(* (the listing buffer, stdin) is a sequence of characters too.  A literal  *)
(* of the source that holds no separator and no line break is kept as one   *)
(* element of the sequence.                                                 *)
(***************************************************************************)
EXTENDS Integers, Sequences, FiniteSets, TLC

VARIABLES
    pc,                 \* position in main_impl
    argv,               \* the process's file arguments (never changes)
    stdin,              \* the text on standard input
    dry_run,            \* args.dry_run
    files,              \* args.files
    before,             \* the collected original paths
    buffer,             \* the content of the temp file
    script,             \* the edit the user performs in the editor, once made
    after,              \* the parsed edited paths
    failure,            \* the validation flag
    reverse_map,        \* after value -> the before values claiming it
    renamed_ancestors,  \* set of <<before_stem, after_stem>>
    stderr,             \* the lines printed so far
    idx,                \* the rename loop's position (counted from 1)
    renames,            \* the std::fs::rename calls issued, each with its outcome
    fs,                 \* the filesystem: existing path -> content
    exit,               \* the process's exit status
    prev                \* the outcome of the preceding dry run, if this is a re-run

vars == <<pc, argv, stdin, dry_run, files, before, buffer, script, after, failure,
          reverse_map, renamed_ancestors, stderr, idx, renames, fs, exit, prev>>

---------------------------------------------------------------------------
(* Bounds of the model *)

\* the most file arguments of a run
MaxFiles == 2
\* the most lines the user leaves below the header in an edit
MaxLines == 2

---------------------------------------------------------------------------
(* Characters, strings and their order *)

\* The byte of a character: Rust's str and String order is byte-wise.
Byte(c) ==
    CASE c = "\n" -> 10
      [] c = "\r" -> 13
      [] c = " "  -> 32
      [] c = "-"  -> 45
      [] c = "."  -> 46
      [] c = "/"  -> 47
      [] c = "2"  -> 50
      [] c = ">"  -> 62
      [] c = "a"  -> 97
      [] c = "b"  -> 98
      [] c = "c"  -> 99
      [] c = "d"  -> 100
      [] c = "i"  -> 105
      [] c = "r"  -> 114
      [] c = "t"  -> 116
      [] c = "x"  -> 120

\* s < t for strings: lexicographic on bytes, a proper prefix first.
StrLess(s, t) ==
    \E i \in 1..Len(t) :
        /\ i <= Len(s) + 1
        /\ \A j \in 1..(i - 1) : s[j] = t[j]
        /\ \/ i = Len(s) + 1
           \/ Byte(s[i]) < Byte(t[i])

\* (a, b) < (c, d) for pairs of strings, as Rust orders tuples.
PairLess(p, q) ==
    \/ StrLess(p[1], q[1])
    \/ p[1] = q[1] /\ StrLess(p[2], q[2])

Range(s) == {s[i] : i \in 1..Len(s)}

Max(S) == CHOOSE x \in S : \A y \in S : y <= x

\* The iteration order of a BTreeSet<String> (or the keys of a BTreeMap).
StrAscending(S) ==
    [i \in 1..Cardinality(S) |->
        CHOOSE x \in S : Cardinality({y \in S : StrLess(y, x)}) = i - 1]

\* The iteration order of a BTreeSet<(&str, &str)>.
PairAscending(S) ==
    [i \in 1..Cardinality(S) |->
        CHOOSE x \in S : Cardinality({y \in S : PairLess(y, x)}) = i - 1]

RECURSIVE Concat(_)
Concat(ss) == IF ss = <<>> THEN <<>> ELSE Head(ss) \o Concat(Tail(ss))

Digits == <<"0", "1", "2", "3", "4", "5", "6", "7", "8", "9">>

\* "{}" of a usize
RECURSIVE Dec(_)
Dec(n) == IF n < 10 THEN <<Digits[n + 1]>>
          ELSE Dec(n \div 10) \o <<Digits[(n % 10) + 1]>>

\* "{s:<pad$}": s, then spaces up to the width pad
PadLeftAligned(s, pad) ==
    s \o [i \in 1..(IF pad > Len(s) THEN pad - Len(s) ELSE 0) |-> " "]

\* Option<T>: None, or Some(x)
None == <<>>
Some(x) == <<x>>

---------------------------------------------------------------------------
(* Pure functions of main.rs *)

\* str::strip_suffix('/').unwrap_or(path)
StripSuffixSlash(path) ==
    IF Len(path) > 0 /\ path[Len(path)] = "/"
    THEN SubSeq(path, 1, Len(path) - 1)
    ELSE path

\* get_ancestor without strip_suffix: the trailing '/' kept
get_ancestor_nostrip(path) ==
    LET slashes == {i \in 1..Len(path) : path[i] = "/"}
    IN  IF slashes = {} THEN None
        ELSE Some(SubSeq(path, 1, Max(slashes) - 1))

\* get_ancestor: what precedes the last '/' of the path less one trailing '/'
get_ancestor(path) ==
    LET s == StripSuffixSlash(path)
        slashes == {i \in 1..Len(s) : s[i] = "/"}
    IN  IF slashes = {} THEN None
        ELSE Some(SubSeq(s, 1, Max(slashes) - 1))

\* BufRead::lines: the text cut at each "\n", a "\r" before it dropped too; a last
\* line without "\n" counts, an empty rest does not.
RECURSIVE LinesFrom(_, _)
LinesFrom(text, start) ==
    IF start > Len(text) THEN <<>>
    ELSE LET nls == {i \in start..Len(text) : text[i] = "\n"}
         IN  IF nls = {} THEN <<SubSeq(text, start, Len(text))>>
             ELSE LET nl == CHOOSE i \in nls : \A j \in nls : i <= j
                      raw == SubSeq(text, start, nl - 1)
                      line == IF Len(raw) > 0 /\ raw[Len(raw)] = "\r"
                              THEN SubSeq(raw, 1, Len(raw) - 1)
                              ELSE raw
                  IN  <<line>> \o LinesFrom(text, nl + 1)

Lines(text) == LinesFrom(text, 1)

\* the arguments taken as they come, neither ordered nor deduplicated
VecCollect(fileArgs) == fileArgs

\* order and deduplicate: Vec -> BTreeSet -> Vec
BTreeSetCollect(fileArgs) == StrAscending(Range(fileArgs))

\* the header written above the paths
Header ==
    <<"/", "/", " empty lines and coments are ignored", "\n",
      "/", "/", " do not remove or reorder any lines", "\n",
      "/", "/", " do not edit anything other than file stems", "\n",
      "\n">>

\* one path per line
Unlines(paths) == Concat([i \in 1..Len(paths) |-> paths[i] \o <<"\n">>])

\* the temp file's content as written
Listing(paths) == Header \o Unlines(paths)

\* line.is_empty() || line.starts_with("//")
IsIgnored(line) ==
    \/ Len(line) = 0
    \/ Len(line) >= 2 /\ line[1] = "/" /\ line[2] = "/"

\* the lines of the edited file that are pushed to after
ParseListing(text) == SelectSeq(Lines(text), LAMBDA line : ~IsIgnored(line))

\* before.len() != after.len()
CountsDiffer(b, a) == Len(b) # Len(a)

\* the iteration, were the loop to skip every pair after the first conflict
ZipStepStopsAtFirst(st, b, a) ==
    LET rm == st.reverse_map
        befores == (IF a \in DOMAIN rm THEN rm[a] ELSE <<>>) \o <<b>>
        bs == get_ancestor(b)
        as == get_ancestor(a)
        differ == bs # None /\ as # None /\ bs[1] # as[1]
    IN  IF st.failure THEN st
        ELSE [failure |-> Len(befores) > 1 \/ differ,
              reverse_map |-> [k \in DOMAIN rm \cup {a} |-> IF k = a THEN befores ELSE rm[k]],
              renamed_ancestors |->
                 IF differ THEN st.renamed_ancestors \cup {<<bs[1], as[1]>>}
                 ELSE st.renamed_ancestors]

\* the iteration without the comparison of the two ancestors
ZipStepNoAncestors(st, b, a) ==
    LET rm == st.reverse_map
        befores == (IF a \in DOMAIN rm THEN rm[a] ELSE <<>>) \o <<b>>
    IN  [failure |-> st.failure \/ Len(befores) > 1,
         reverse_map |-> [k \in DOMAIN rm \cup {a} |-> IF k = a THEN befores ELSE rm[k]],
         renamed_ancestors |-> st.renamed_ancestors]

\* One iteration of the pairing loop over (before, after): st is the loop's state,
\* the failure flag, reverse_map and renamed_ancestors.
ZipStep(st, b, a) ==
    LET rm == st.reverse_map
        befores == (IF a \in DOMAIN rm THEN rm[a] ELSE <<>>) \o <<b>>
        bs == get_ancestor(b)
        as == get_ancestor(a)
        differ == bs # None /\ as # None /\ bs[1] # as[1]
    IN  [failure |-> st.failure \/ Len(befores) > 1 \/ differ,
         reverse_map |-> [k \in DOMAIN rm \cup {a} |-> IF k = a THEN befores ELSE rm[k]],
         renamed_ancestors |->
            IF differ THEN st.renamed_ancestors \cup {<<bs[1], as[1]>>}
            ELSE st.renamed_ancestors]

\* Iterator::zip(before.iter(), after.iter()): pairs up to the shorter length
RECURSIVE ZipLoop(_, _, _, _)
ZipLoop(st, b, a, i) ==
    IF i > Len(b) \/ i > Len(a) THEN st
    ELSE ZipLoop(ZipStep(st, b[i], a[i]), b, a, i + 1)

LoopStart == [failure |-> FALSE, reverse_map |-> <<>>, renamed_ancestors |-> {}]

\* "duplicate renames:" and, per after value claimed more than once (in key
\* order), "-> after", "<- before" per claimant, and an empty line
DuplicateReport(rm) ==
    LET dup == {k \in DOMAIN rm : Len(rm[k]) > 1}
        keys == StrAscending(dup)
    IN  IF dup = {} THEN <<>>
        ELSE <<  <<"duplicate renames:">>  >> \o
             Concat([i \in 1..Len(keys) |->
                 <<  <<"-", ">", " ">> \o keys[i]  >> \o
                 [j \in 1..Len(rm[keys[i]]) |-> <<"<", "-", " ">> \o rm[keys[i]][j]] \o
                 << <<>> >>])

\* "{before:<pad$} -> {after}"
ReportLine(b, a, pad) == PadLeftAligned(b, pad) \o <<" ", "-", ">", " ">> \o a

\* "inline renamed ancestors:" and one line per pair, in the set's order
AncestorReport(ra) ==
    IF ra = {} THEN <<>>
    ELSE LET pad == Max({Len(p[1]) : p \in ra})
             pairs == PairAscending(ra)
         IN  <<  <<"inline renamed ancestors:">>  >> \o
             [i \in 1..Len(pairs) |-> ReportLine(pairs[i][1], pairs[i][2], pad)]

\* "had {} path(s) before, but {} path(s) after"
CountReport(b, a) ==
    <<"had ">> \o Dec(Len(b)) \o <<" path(s) before, but ">> \o Dec(Len(a))
        \o <<" path(s) after">>

\* the pairs without .rev(): first to last
FwdZip(b, a) ==
    LET n == IF Len(b) < Len(a) THEN Len(b) ELSE Len(a)
    IN  [k \in 1..n |-> <<b[k], a[k]>>]

\* Iterator::zip(before.iter().rev(), after.iter().rev())
RevZip(b, a) ==
    LET n == IF Len(b) < Len(a) THEN Len(b) ELSE Len(a)
    IN  [k \in 1..n |-> <<b[Len(b) - k + 1], a[Len(a) - k + 1]>>]

\* the loop without its continue
NeverSkipped(b, a) == FALSE

\* if before == after { continue; }
IsSkipped(b, a) == b = a

\* the rename outside the dry_run test
AlwaysRenames(dry) == TRUE

\* if !args.dry_run
CallsRename(dry) == ~dry

\* std::fs::rename(from, to) on the filesystem: the entry moves, replacing what
\* was at to
FsRename(f, from, to) ==
    [p \in (DOMAIN f \ {from}) \cup {to} |-> IF p = to THEN f[from] ELSE f[p]]

\* whether the call can succeed, can fail: a missing source always fails, and any
\* call may fail in the operating system
RenameOutcomes(f, from) == IF from \in DOMAIN f THEN {TRUE, FALSE} ELSE {FALSE}

\* the rename's result dropped instead of returned
GoesOnAfterErr(ok) == TRUE

\* the ? operator on the rename's result: an Err leaves the loop and main_impl
GoesOn(ok) == ok

\* main: main_impl().unwrap() panics on Err
PanicLine == <<"thread main panicked: called Result::unwrap() on an Err value">>

---------------------------------------------------------------------------
(* The inputs of a run *)

\* the paths the generated runs are made of: a, b, a/, a/b, //b
PathPool ==
    { <<"a">>, <<"b">>, <<"a", "/">>, <<"a", "/", "b">>, <<"/", "/", "b">> }

\* what the user may type as a line below the header: a path of the pool, a/a,
\* b/b, or nothing (an empty line)
LinePool == PathPool \cup { <<"a", "/", "a">>, <<"b", "/", "b">>, <<>> }

\* a.txt, b.txt, dir/c.txt
ExampleFiles ==
    << <<"a", ".", "t", "x", "t">>,
       <<"b", ".", "t", "x", "t">>,
       <<"d", "i", "r", "/", "c", ".", "t", "x", "t">> >>

\* a2.txt, b.txt, dir2/c.txt
ExampleEdit ==
    << <<"a", "2", ".", "t", "x", "t">>,
       <<"b", ".", "t", "x", "t">>,
       <<"d", "i", "r", "2", "/", "c", ".", "t", "x", "t">> >>

\* a2.txt, b.txt, dir/c2.txt
ExampleEditInDir ==
    << <<"a", "2", ".", "t", "x", "t">>,
       <<"b", ".", "t", "x", "t">>,
       <<"d", "i", "r", "/", "c", "2", ".", "t", "x", "t">> >>

\* the sentinel argument "-"
Dash == << <<"-">> >>

\* the file arguments: required = true, num_args(1..)
ArgvChoices ==
    UNION {[1..n -> PathPool] : n \in 1..MaxFiles} \cup {ExampleFiles, Dash}

\* standard input, read only with the sentinel: nothing; "b\na\nb\n"; "a\r\n\nb"
StdinChoices ==
    { <<>>,
      <<"b", "\n", "a", "\n", "b", "\n">>,
      <<"a", "\r", "\n", "\n", "b">> }

\* the edits: the file left as it is, or the header kept and the lines below it
\* replaced
EditChoices ==
    {[keep |-> TRUE, lines |-> <<>>]} \cup
    {[keep |-> FALSE, lines |-> ls] :
        ls \in UNION {[1..n -> LinePool] : n \in 0..MaxLines}
               \cup {ExampleEdit, ExampleEditInDir}}

Edited(text, edit) == IF edit.keep THEN text ELSE Header \o Unlines(edit.lines)

\* every path of a run exists as a file, its content named after it
FsInit == [p \in PathPool \cup Range(ExampleFiles) |-> p]

---------------------------------------------------------------------------
(* The run *)

Init ==
    /\ pc = "start"
    /\ argv \in ArgvChoices
    /\ stdin \in (IF argv = Dash THEN StdinChoices ELSE {<<>>})
    /\ dry_run \in BOOLEAN
    /\ files = argv
    /\ before = <<>>
    /\ buffer = <<>>
    /\ script = <<>>
    /\ after = <<>>
    /\ failure = FALSE
    /\ reverse_map = <<>>
    /\ renamed_ancestors = {}
    /\ stderr = <<>>
    /\ idx = 0
    /\ renames = <<>>
    /\ fs = FsInit
    /\ exit = "none"
    /\ prev = <<>>

\* lines 36-51: Args::parse, and the paths read from stdin for the sentinel
ReadArgs ==
    /\ pc = "start"
    /\ IF files = Dash
       THEN /\ files' = Lines(stdin)
            /\ IF Lines(stdin) = <<>>
               THEN /\ stderr' = Append(stderr, <<"no files provided on stdin">>)
                    /\ exit' = "FAILURE"
                    /\ pc' = "done"
               ELSE /\ pc' = "collect"
                    /\ UNCHANGED <<stderr, exit>>
       ELSE /\ pc' = "collect"
            /\ UNCHANGED <<files, stderr, exit>>
    /\ UNCHANGED <<argv, stdin, dry_run, before, buffer, script, after, failure,
                   reverse_map, renamed_ancestors, idx, renames, fs, prev>>

\* lines 53-55: order and deduplicate
Collect ==
    /\ pc = "collect"
    /\ before' = BTreeSetCollect(files)
    /\ pc' = "write"
    /\ UNCHANGED <<argv, stdin, dry_run, files, buffer, script, after, failure,
                   reverse_map, renamed_ancestors, stderr, idx, renames, fs, exit, prev>>

\* lines 57-70: the header and the paths, written to the temp file
WriteListing ==
    /\ pc = "write"
    /\ buffer' = Listing(before)
    /\ pc' = "editor"
    /\ UNCHANGED <<argv, stdin, dry_run, files, before, script, after, failure,
                   reverse_map, renamed_ancestors, stderr, idx, renames, fs, exit, prev>>

\* lines 72-82: the editor runs on the temp file and exits with success; a re-run
\* repeats the edit of the run before
EditorExits ==
    /\ pc = "editor"
    /\ \E edit \in EditChoices :
        /\ script = <<>> \/ script = <<edit>>
        /\ script' = <<edit>>
        /\ buffer' = Edited(buffer, edit)
    /\ pc' = "parse"
    /\ UNCHANGED <<argv, stdin, dry_run, files, before, after, failure,
                   reverse_map, renamed_ancestors, stderr, idx, renames, fs, exit, prev>>

\* lines 79-82: the editor exits with a failure status
EditorFails ==
    /\ pc = "editor"
    /\ script = <<>>
    /\ stderr' = Append(stderr, <<"editor exited with: exit status: 1">>)
    /\ exit' = "FAILURE"
    /\ pc' = "done"
    /\ UNCHANGED <<argv, stdin, dry_run, files, before, buffer, script, after, failure,
                   reverse_map, renamed_ancestors, idx, renames, fs, prev>>

\* line 77: the editor cannot be started; the Err reaches main's unwrap
EditorNotStarted ==
    /\ pc = "editor"
    /\ script = <<>>
    /\ stderr' = Append(stderr, PanicLine)
    /\ exit' = "panic"
    /\ pc' = "done"
    /\ UNCHANGED <<argv, stdin, dry_run, files, before, buffer, script, after, failure,
                   reverse_map, renamed_ancestors, idx, renames, fs, prev>>

\* lines 84-97: the temp file read back and parsed
Parse ==
    /\ pc = "parse"
    /\ after' = ParseListing(buffer)
    /\ pc' = "validate"
    /\ UNCHANGED <<argv, stdin, dry_run, files, before, buffer, script, failure,
                   reverse_map, renamed_ancestors, stderr, idx, renames, fs, exit, prev>>

\* lines 99-163: the count check, the pairing loop, the two reports
Validate ==
    /\ pc = "validate"
    /\ IF CountsDiffer(before, after)
       THEN /\ stderr' = Append(stderr, CountReport(before, after))
            /\ exit' = "FAILURE"
            /\ pc' = "done"
            /\ UNCHANGED <<failure, reverse_map, renamed_ancestors, idx>>
       ELSE LET st == ZipLoop(LoopStart, before, after, 1)
            IN  /\ failure' = st.failure
                /\ reverse_map' = st.reverse_map
                /\ renamed_ancestors' = st.renamed_ancestors
                /\ stderr' = stderr \o DuplicateReport(st.reverse_map)
                                    \o AncestorReport(st.renamed_ancestors)
                /\ IF st.failure
                   THEN /\ exit' = "FAILURE"
                        /\ pc' = "done"
                        /\ idx' = idx
                   ELSE /\ exit' = exit
                        /\ pc' = "rename"
                        /\ idx' = 1
    /\ UNCHANGED <<argv, stdin, dry_run, files, before, buffer, script, after,
                   renames, fs, prev>>

\* lines 165-175: one iteration of the rename loop
RenameStep ==
    /\ pc = "rename"
    /\ idx <= Len(RevZip(before, after))
    /\ LET b == RevZip(before, after)[idx][1]
           a == RevZip(before, after)[idx][2]
           pad == Max({Len(p) : p \in Range(before)})
       IN  IF IsSkipped(b, a)
           THEN /\ idx' = idx + 1
                /\ UNCHANGED <<stderr, renames, fs, exit, pc>>
           ELSE IF CallsRename(dry_run)
           THEN \E ok \in RenameOutcomes(fs, b) :
                /\ renames' = Append(renames, [from |-> b, to |-> a, ok |-> ok])
                /\ fs' = IF ok THEN FsRename(fs, b, a) ELSE fs
                /\ IF GoesOn(ok)
                   THEN /\ stderr' = Append(stderr, ReportLine(b, a, pad))
                        /\ idx' = idx + 1
                        /\ UNCHANGED <<exit, pc>>
                   ELSE /\ stderr' = stderr \o <<ReportLine(b, a, pad), PanicLine>>
                        /\ exit' = "panic"
                        /\ pc' = "done"
                        /\ idx' = idx
           ELSE /\ stderr' = Append(stderr, ReportLine(b, a, pad))
                /\ idx' = idx + 1
                /\ UNCHANGED <<renames, fs, exit, pc>>
    /\ UNCHANGED <<argv, stdin, dry_run, files, before, buffer, script, after, failure,
                   reverse_map, renamed_ancestors, prev>>

\* line 177: Ok(ExitCode::SUCCESS)
Finish ==
    /\ pc = "rename"
    /\ idx > Len(RevZip(before, after))
    /\ exit' = "SUCCESS"
    /\ pc' = "done"
    /\ UNCHANGED <<argv, stdin, dry_run, files, before, buffer, script, after, failure,
                   reverse_map, renamed_ancestors, stderr, idx, renames, fs, prev>>

\* the user, after a dry run, runs the program again with the same arguments and
\* input and without --dry-run; what the dry run showed is kept in prev
RunAgain ==
    /\ pc = "done"
    /\ dry_run
    /\ script # <<>>
    /\ prev = <<>>
    /\ prev' = << [exit |-> exit, stderr |-> stderr, before |-> before,
                   after |-> after, failure |-> failure, renames |-> renames,
                   reverse_map |-> reverse_map,
                   renamed_ancestors |-> renamed_ancestors] >>
    /\ dry_run' = FALSE
    /\ pc' = "start"
    /\ files' = argv
    /\ before' = <<>>
    /\ buffer' = <<>>
    /\ after' = <<>>
    /\ failure' = FALSE
    /\ reverse_map' = <<>>
    /\ renamed_ancestors' = {}
    /\ stderr' = <<>>
    /\ idx' = 0
    /\ renames' = <<>>
    /\ exit' = "none"
    /\ UNCHANGED <<argv, stdin, script, fs>>

Next ==
    \/ ReadArgs
    \/ Collect
    \/ WriteListing
    \/ EditorExits
    \/ EditorFails
    \/ EditorNotStarted
    \/ Parse
    \/ Validate
    \/ RenameStep
    \/ Finish
    \/ RunAgain

Spec == Init /\ [][Next]_vars

---------------------------------------------------------------------------
(* What the claims speak of, stated from their words *)

\* the run went through validation and into the rename loop
AcceptedRun ==
    /\ script # <<>>
    /\ pc = "rename" \/ (pc = "done" /\ exit \in {"SUCCESS", "panic"})

\* the run went through validation and ended there
RejectedRun == script # <<>> /\ pc = "done" /\ exit = "FAILURE"

\* the parent of a path: the text before the last "/" of the path less one
\* trailing "/"; <<>> when there is no such "/"
ParentOf(p) ==
    LET t == IF p # <<>> /\ p[Len(p)] = "/" THEN [i \in 1..(Len(p) - 1) |-> p[i]] ELSE p
    IN  IF \E i \in 1..Len(t) : t[i] = "/"
        THEN LET k == CHOOSE i \in 1..Len(t) :
                          t[i] = "/" /\ \A j \in (i + 1)..Len(t) : t[j] # "/"
             IN  << [i \in 1..(k - 1) |-> t[i]] >>
        ELSE <<>>

\* the pairs whose before and after both have a parent, the two differing
ParentPairs(b, a) ==
    {<<ParentOf(b[i])[1], ParentOf(a[i])[1]>> :
        i \in {j \in 1..Len(b) : /\ ParentOf(b[j]) # <<>>
                                  /\ ParentOf(a[j]) # <<>>
                                  /\ ParentOf(b[j]) # ParentOf(a[j])}}

\* the after values paired with more than one before value
ClaimedTwice(b, a) ==
    {a[i] : i \in {j \in 1..Len(a) : \E k \in 1..Len(a) : k # j /\ a[k] = a[j]}}

\* the three conditions of acceptance
PlanOK(b, a) ==
    /\ Len(b) = Len(a)
    /\ ClaimedTwice(b, a) = {}
    /\ ParentPairs(b, a) = {}

\* the pairs with before # after, from the last to the first
RECURSIVE PairsDescending(_, _, _)
PairsDescending(b, a, i) ==
    IF i = 0 THEN <<>>
    ELSE (IF b[i] # a[i] THEN << <<b[i], a[i]>> >> ELSE <<>>)
         \o PairsDescending(b, a, i - 1)

Spaces(n) == [i \in 1..n |-> " "]

\* "before -> after", before filled with spaces to the width w
ArrowLine(b, a, w) == b \o Spaces(w - Len(b)) \o <<" ", "-", ">", " ">> \o a

\* the width of the longest original path
Longest(b) == CHOOSE w \in {Len(b[i]) : i \in 1..Len(b)} :
                  \A i \in 1..Len(b) : Len(b[i]) <= w

\* the lines on stderr other than the panic message
Reported(err) == SelectSeq(err, LAMBDA line : line # PanicLine)

\* q lies under p: q starts with p followed by "/"
Under(q, p) ==
    /\ Len(q) > Len(p)
    /\ \A i \in 1..Len(p) : q[i] = p[i]
    /\ q[Len(p) + 1] = "/"

\* the filesystem after the calls cs that succeeded, from f
RECURSIVE Applied(_, _)
Applied(f, cs) ==
    IF cs = <<>> THEN f
    ELSE Applied(IF Head(cs).ok
                 THEN [p \in (DOMAIN f \ {Head(cs).from}) \cup {Head(cs).to} |->
                          IF p = Head(cs).to THEN f[Head(cs).from] ELSE f[p]]
                 ELSE f,
                 Tail(cs))

---------------------------------------------------------------------------
(* The claims *)

\* C1: no rename is issued unless the plan was accepted; a plan is accepted if
\* and only if the counts are equal, no after value is paired with more than one
\* before value, and no pair has two parents that differ (a path without a parent
\* exempts its pair); in every other case the run ends with a failure status and
\* no rename, with or without dry-run.
C1_AcceptedIffThreeConditions ==
    /\ renames # <<>> => AcceptedRun /\ PlanOK(before, after)
    /\ AcceptedRun => PlanOK(before, after)
    /\ RejectedRun => ~PlanOK(before, after) /\ renames = <<>>
    /\ pc = "done" /\ ~AcceptedRun => exit # "SUCCESS" /\ renames = <<>> /\ fs = FsInit

\* C1's case: an accepted plan with a pair whose before has no parent and whose
\* after has one (a -> a/a), renamed
C1_Witness ==
    /\ pc = "done" /\ exit = "SUCCESS" /\ renames # <<>>
    /\ \E i \in 1..Len(before) :
          ParentOf(before[i]) = <<>> /\ ParentOf(after[i]) # <<>>

\* C2: when the listing is handed back as written, parsing yields the collected
\* paths, validation passes, no rename is called, no rename line is printed and the
\* process exits with success, for every non-empty path.
C2_UnmodifiedListingIsNoOp ==
    ( /\ pc = "done"
      /\ script = << [keep |-> TRUE, lines |-> <<>>] >>
      /\ \A i \in 1..Len(before) : before[i] # <<>> )
    => /\ after = before
       /\ exit = "SUCCESS"
       /\ renames = <<>>
       /\ stderr = <<>>

\* what the rename loop of an accepted plan has printed and called so far is the
\* first n of the pairs with before # after, last to first
FirstOfPlan(n) ==
    LET E == PairsDescending(before, after, Len(before))
        L == Reported(stderr)
    IN  /\ n <= Len(E)
        /\ Len(L) = n
        /\ \A k \in 1..n : L[k] = ArrowLine(E[k][1], E[k][2], Longest(before))
        /\ IF dry_run THEN renames = <<>>
           ELSE /\ Len(renames) = n
                /\ \A k \in 1..n : renames[k].from = E[k][1] /\ renames[k].to = E[k][2]

\* C3 as amended: for an accepted plan the reported lines, and in a normal run
\* the rename calls, are the pairs with before # after in strictly descending
\* order of before, from their start: all of them when the run ends with success,
\* and up to the call that failed when one fails; an identity pair gives no line
\* and no call, and no pair is renamed twice.
C3_PairsInDescendingOrder ==
    AcceptedRun =>
        /\ \E n \in 0..Len(before) : FirstOfPlan(n)
        /\ exit = "SUCCESS" => FirstOfPlan(Len(PairsDescending(before, after, Len(before))))
        /\ exit = "panic" => renames # <<>> /\ ~renames[Len(renames)].ok
        /\ \A i, j \in 1..Len(renames) :
              i < j => /\ StrLess(renames[j].from, renames[i].from)
                       /\ renames[i].from # renames[i].to

\* C3's case: a normal run that ended with success after two renames, one pair
\* being an identity pair
C3_Witness ==
    /\ pc = "done" /\ exit = "SUCCESS" /\ ~dry_run
    /\ Len(renames) = 2
    /\ \E i \in 1..Len(before) : before[i] = after[i]

\* C3 as stated: for an accepted plan the reported lines (and the rename calls of
\* a normal run) are exactly the pairs with before # after, last to first.
C3_Original ==
    AcceptedRun /\ pc = "done" =>
        FirstOfPlan(Len(PairsDescending(before, after, Len(before))))

\* C4 as amended: a.txt, b.txt, dir/c.txt edited to a2.txt, b.txt, dir2/c.txt is
\* rejected, with the ancestor pair (dir, dir2) reported, a failure status and no
\* rename; edited to a2.txt, b.txt, dir/c2.txt it is accepted, and a normal run
\* in which no call fails issues dir/c.txt -> dir/c2.txt and then a.txt -> a2.txt,
\* skips b.txt, and prints both lines with before filled to the width 9.
C4_ExampleOutcome ==
    /\ before = ExampleFiles /\ after = ExampleEdit /\ pc \in {"rename", "done"} =>
          /\ pc = "done" /\ exit = "FAILURE" /\ renames = <<>>
          /\ renamed_ancestors = { << <<"d", "i", "r">>, <<"d", "i", "r", "2">> >> }
          /\ stderr = << <<"inline renamed ancestors:">>,
                         <<"d", "i", "r", " ", "-", ">", " ", "d", "i", "r", "2">> >>
    /\ before = ExampleFiles /\ after = ExampleEditInDir /\ pc \in {"rename", "done"} =>
          /\ AcceptedRun
          /\ exit = "SUCCESS" =>
                /\ stderr = << ExampleFiles[3] \o <<" ", "-", ">", " ">> \o ExampleEditInDir[3],
                               ExampleFiles[1] \o <<" ", " ", " ", " ">> \o <<" ", "-", ">", " ">>
                                               \o ExampleEditInDir[1] >>
                /\ ~dry_run =>
                      renames = << [from |-> ExampleFiles[3], to |-> ExampleEditInDir[3], ok |-> TRUE],
                                   [from |-> ExampleFiles[1], to |-> ExampleEditInDir[1], ok |-> TRUE] >>

\* C4's case: the example's three paths, edited within dir, renamed by a normal
\* run that has ended
C4_Witness ==
    /\ before = ExampleFiles /\ after = ExampleEditInDir
    /\ pc = "done" /\ ~dry_run /\ exit = "SUCCESS" /\ Len(renames) = 2

\* C4 as stated: a.txt, b.txt, dir/c.txt edited to a2.txt, b.txt, dir2/c.txt is
\* accepted and a normal run applies dir/c.txt -> dir2/c.txt, then a.txt -> a2.txt.
C4_Original ==
    before = ExampleFiles /\ after = ExampleEdit /\ pc = "done" /\ ~dry_run =>
        /\ exit # "FAILURE"
        /\ exit = "SUCCESS" =>
              /\ Len(renames) = 2
              /\ renames[1].from = ExampleFiles[3] /\ renames[1].to = ExampleEdit[3]
              /\ renames[2].from = ExampleFiles[1] /\ renames[2].to = ExampleEdit[1]

\* C5: the collected list holds exactly the distinct input values, each once, in
\* strictly ascending byte-wise order, unnormalised, whatever the order and the
\* repeats of the input, and stays as collected.
C5_CollectedSortedDistinct ==
    pc \notin {"start", "collect"} =>
        /\ Range(before) = Range(files)
        /\ \A i, j \in 1..Len(before) : i < j => StrLess(before[i], before[j])

\* C5's case: an input with a repeat and out of order (b, a, b), collected, the
\* run over
C5_Witness ==
    /\ pc = "done" /\ script # <<>>
    /\ Len(files) = 3 /\ files[1] = files[3] /\ StrLess(files[2], files[1])
    /\ Len(before) = 2

\* what a run showed of its validation
ValidationOf(r) ==
    [failed |-> r.exit = "FAILURE", flag |-> r.failure, before |-> r.before,
     after |-> r.after, duplicates |-> r.reverse_map, ancestors |-> r.renamed_ancestors]

ThisRun ==
    [exit |-> exit, failure |-> failure, before |-> before, after |-> after,
     reverse_map |-> reverse_map, renamed_ancestors |-> renamed_ancestors]

IsPrefix(s, t) == Len(s) <= Len(t) /\ \A i \in 1..Len(s) : s[i] = t[i]

\* C6 as amended: a dry run and a normal run on the same paths and the same
\* edited listing have the same validation outcome and the same diagnostics; the
\* reported before -> after lines are the same when no rename call of the normal
\* run fails, and when one fails the normal run's lines are the dry run's up to the
\* failing pair's; the dry run issues no rename call in any outcome.
C6_DryRunPurity ==
    /\ dry_run => renames = <<>> /\ fs = FsInit
    /\ prev # <<>> /\ pc = "done" =>
          /\ prev[1].renames = <<>>
          /\ ValidationOf(prev[1]) = ValidationOf(ThisRun)
          /\ exit = "panic" <=> (renames # <<>> /\ ~renames[Len(renames)].ok)
          /\ exit # "panic" => stderr = prev[1].stderr /\ exit = prev[1].exit
          /\ exit = "panic" =>
                /\ IsPrefix(Reported(stderr), prev[1].stderr)
                /\ Len(Reported(stderr)) = Len(renames)

\* C6's case: an accepted plan of two renames, run dry and then for real, both
\* runs over
C6_Witness ==
    /\ prev # <<>> /\ pc = "done" /\ exit = "SUCCESS"
    /\ Len(renames) = 2 /\ Len(prev[1].stderr) = 2

\* C6 as stated: two runs that differ only in the dry-run flag have the same
\* validation outcome and the same sequence of reported before -> after lines.
C6_Original ==
    prev # <<>> /\ pc = "done" =>
        /\ ValidationOf(prev[1]) = ValidationOf(ThisRun)
        /\ Reported(stderr) = Reported(prev[1].stderr)

\* the lines "-> after" and "<- before" of a duplicate report, and the arrow
\* lines of an ancestor report
TargetLine(a) == <<"-", ">", " ">> \o a
ClaimantLine(b) == <<"<", "-", " ">> \o b

\* C7: with equal counts every pair is inspected before the run fails: the
\* conflicts recorded and printed are every after value claimed by more than one
\* before value, with all its claimants in ascending order, and every distinct
\* pair of differing parents; the run fails exactly when there is one of either;
\* with differing counts only the counts are reported.
C7_ConflictsCollectedExhaustively ==
    script # <<>> /\ pc \in {"rename", "done"} =>
        IF Len(before) # Len(after)
        THEN /\ RejectedRun
             /\ reverse_map = <<>> /\ renamed_ancestors = {}
             /\ Len(stderr) = 1
             /\ stderr[1] \notin {<<"duplicate renames:">>, <<"inline renamed ancestors:">>}
        ELSE /\ renamed_ancestors = ParentPairs(before, after)
             /\ {k \in DOMAIN reverse_map : Len(reverse_map[k]) > 1}
                    = ClaimedTwice(before, after)
             /\ \A k \in ClaimedTwice(before, after) :
                   /\ Range(reverse_map[k]) = {before[i] : i \in {j \in 1..Len(after) : after[j] = k}}
                   /\ \A i, j \in 1..Len(reverse_map[k]) :
                         i < j => StrLess(reverse_map[k][i], reverse_map[k][j])
                   /\ \E n \in 1..Len(stderr) :
                         /\ stderr[n] = TargetLine(k)
                         /\ n + Len(reverse_map[k]) <= Len(stderr)
                         /\ \A i \in 1..Len(reverse_map[k]) :
                               stderr[n + i] = ClaimantLine(reverse_map[k][i])
             /\ \A pp \in ParentPairs(before, after) :
                   \E n \in 1..Len(stderr) :
                       /\ stderr[n] = ArrowLine(pp[1], pp[2],
                              Max({Len(qq[1]) : qq \in ParentPairs(before, after)}))
                       /\ \E m \in 1..(n - 1) : stderr[m] = <<"inline renamed ancestors:">>
             /\ failure <=> (ClaimedTwice(before, after) # {} \/ ParentPairs(before, after) # {})
             /\ RejectedRun <=> failure
             /\ AcceptedRun <=> ~failure
             /\ ~failure /\ pc = "rename" /\ idx = 1 => stderr = <<>>

\* C7's case: a rejected plan with a target claimed twice and two pairs of
\* differing parents at once (a/b and //b both edited to b/b)
C7_Witness ==
    /\ RejectedRun
    /\ Cardinality(renamed_ancestors) = 2
    /\ \E k \in DOMAIN reverse_map : Len(reverse_map[k]) = 2

\* the number of pairs with before # after
ToRename == Len(PairsDescending(before, after, Len(before)))

\* C8: when the k-th rename call fails, the k-1 calls before it stay applied, no
\* call follows it, none is repeated, and the process ends without success; the
\* process ends with success only if validation passed and every pair with
\* before # after was renamed (or, in a dry run, reported).
C8_StopOnFirstFailure ==
    /\ \A k \in 1..Len(renames) :
          /\ ~renames[k].ok => k = Len(renames) /\ pc = "done" /\ exit = "panic"
          /\ \A j \in 1..Len(renames) : j # k => renames[j].from # renames[k].from
    /\ fs = Applied(FsInit, renames)
    /\ exit = "SUCCESS" =>
          /\ pc = "done" /\ script # <<>>
          /\ PlanOK(before, after) /\ ~failure
          /\ Len(Reported(stderr)) = ToRename
          /\ ~dry_run => Len(renames) = ToRename /\ \A k \in 1..Len(renames) : renames[k].ok
    /\ pc = "done" => exit \in {"SUCCESS", "FAILURE", "panic"}

\* C8's case: the second rename call of a plan has failed after the first succeeded
C8_Witness ==
    /\ Len(renames) = 2 /\ renames[1].ok /\ ~renames[2].ok
    /\ pc = "done"
    /\ fs # FsInit

\* the swap: a, b edited to b, a
SwapBefore == << <<"a">>, <<"b">> >>
SwapAfter == << <<"b">>, <<"a">> >>

\* C9: the swap a, b -> b, a passes validation and is applied as b -> a and then
\* a -> b, with no other name in between; with both files present the first
\* rename replaces a, which still awaits its own rename, and a's content is lost.
C9_SwapClobbers ==
    before = SwapBefore /\ after = SwapAfter /\ pc \in {"rename", "done"} =>
        /\ AcceptedRun
        /\ ~failure
        /\ IsPrefix(Reported(stderr), << <<"b", " ", "-", ">", " ", "a">>,
                                         <<"a", " ", "-", ">", " ", "b">> >>)
        /\ IsPrefix([k \in 1..Len(renames) |-> <<renames[k].from, renames[k].to>>],
                    << << <<"b">>, <<"a">> >>, << <<"a">>, <<"b">> >> >>)
        /\ exit = "SUCCESS" /\ ~dry_run =>
              /\ Len(renames) = 2
              /\ <<"a">> \notin DOMAIN fs
              /\ fs[<<"b">>] = <<"b">>
        /\ renames # <<>> /\ renames[1].ok =>
              /\ FsInit[<<"a">>] = <<"a">> /\ FsInit[<<"b">>] = <<"b">>
              /\ \A p \in DOMAIN fs : fs[p] # <<"a">>

\* C9's case: the swap applied by a normal run that ended with success
C9_Witness ==
    /\ before = SwapBefore /\ after = SwapAfter
    /\ pc = "done" /\ exit = "SUCCESS" /\ ~dry_run /\ Len(renames) = 2

\* the before values the rename loop has visited so far, in the order visited
Visited ==
    [k \in 1..(IF pc = "rename" THEN idx - 1
               ELSE IF exit = "SUCCESS" THEN Len(before)
               ELSE idx) |-> RevZip(before, after)[k][1]]

\* C10: in an accepted plan a path under another is visited before it; so no
\* rename is issued after a rename whose source is an ancestor directory of its
\* before path.
C10_DescendantsFirst ==
    AcceptedRun =>
        /\ \A k \in 1..Len(Visited) : \A q \in Range(before) :
              Under(q, Visited[k]) => \E j \in 1..(k - 1) : Visited[j] = q
        /\ \A i, j \in 1..Len(renames) :
              i < j => ~Under(renames[j].from, renames[i].from)
        /\ \A k \in 1..Len(renames) : renames[k].from \in Range(Visited)

\* C10's case: a and a/b both renamed by a normal run, a/b first
C10_Witness ==
    /\ pc = "done" /\ exit = "SUCCESS" /\ Len(renames) = 2
    /\ Under(renames[1].from, renames[2].from)

====
